---- MODULE Spec2Model ----
(***************************************************************************)
(* COBALT (CoDel + BLUE) AQM decision engine, src/cobalt.c.                *)
(*                                                                         *)
(* The C code works on u32 words and u64 timestamps.  The model keeps the  *)
(* modular arithmetic of both, at a reduced width: a u32 is a WordBits-bit *)
(* word and a u64 is a 2*WordBits-bit word, with every shift amount that   *)
(* the code derives from 32 derived from WordBits in the same way.         *)
(***************************************************************************)
EXTENDS Integers, Naturals, Sequences, FiniteSets, TLC

\* ------------------------------------------------------------------ bounds
WordBits == 5          \* width standing for u32
MaxNow   == 5          \* largest timestamp a call is made with
MaxStep  == 2          \* largest advance of the clock between two calls
MaxDepth == 8          \* nested calls a thread's stack holds before it overflows

\* --------------------------------------------------------------- constants
REC_INV_SQRT_CACHE == 16

WordMod == 2 ^ WordBits                \* u32 arithmetic is modulo this
MAX     == WordMod - 1                 \* ~0 as u32
TimeMod == 2 ^ (2 * WordBits)          \* u64 arithmetic is modulo this
REC_INV_SQRT_BITS  == WordBits
REC_INV_SQRT_SHIFT == WordBits - REC_INV_SQRT_BITS

NoDraw == 0 - 1                        \* rnd when prandom_u32 was not called

\* Configurations (struct cobalt_params); threshold is never read.  interval and
\* target are u64: the second interval does not fit a u32.  In the first p_drop
\* needs two increments to saturate and one decrement floors it; in the second
\* one increment saturates it and a decrement leaves it positive.
ParamSets ==
  { [interval |-> 4, target |-> 1,
     p_inc |-> 2 ^ (WordBits - 1), p_dec |-> 3 * 2 ^ (WordBits - 2)],
    [interval |-> 2 ^ WordBits + 4, target |-> 1,
     p_inc |-> 2 ^ WordBits - 1, p_dec |-> 2 ^ (WordBits - 1)] }

\* Threads that call cobalt_vars_init; the queue modelled belongs to Owner
Threads == {1, 2}
Owner   == 1

\* Inputs of a call
Sojourns == {1, 2}                     \* now - enqueue_time of the packet
RandSet  == {0, 2 ^ (WordBits - 1), MAX}   \* values prandom_u32 may return

VARIABLES
  count, rec_inv_sqrt, drop_next, blue_timer, p_drop, dropping, ecn_marked,
  params,        \* struct cobalt_params of the queue
  cache,         \* cobalt_rec_inv_sqrt_cache
  clock,         \* the now of the most recent call
  op,            \* the most recent call: "init", "full", "empty", "drop"
  was_p_drop,    \* p_drop as the most recent call found it
  was_dropping,  \* should_drop: dropping as the call found it
  was_count,     \* should_drop: count as the call found it
  over,          \* should_drop: over_target of the most recent call
  due,           \* should_drop: next_due as first evaluated
  marks,         \* should_drop: number of INET_ECN_set_ce calls made
  iters,         \* should_drop: iterations of the resynchronisation loop
  delay_drop,    \* should_drop: drop before the BLUE stage
  draws,         \* should_drop: number of prandom_u32 calls made
  rnd,           \* should_drop: the value drawn, NoDraw if none
  ret,           \* should_drop: the value returned
  ipc,           \* per thread: "call" about to run cobalt_vars_init, "done", "overflow"
  depth,         \* per thread: cobalt_cache_init frames on its stack
  entered,       \* number of times cobalt_cache_init has been entered
  was_estimate   \* refine: rec_inv_sqrt as the most recent refinement found it

cvars == <<count, rec_inv_sqrt, drop_next, blue_timer, p_drop, dropping, ecn_marked>>
rvars == <<was_dropping, was_count, over, due, marks, iters, delay_drop, draws, rnd, ret>>
ivars == <<ipc, depth, entered>>
vars  == <<cvars, params, cache, clock, op, was_p_drop, rvars, ivars, was_estimate>>

\* ------------------------------------------------------------- arithmetic
\* u64 subtraction
UDiff(a, b) == (a - b) % TimeMod

\* the same difference read as s64 (cobalt_tdiff_t)
SDiff(a, b) ==
  LET d == (a - b) % TimeMod
  IN  IF d >= TimeMod \div 2 THEN d - TimeMod ELSE d

Shr(x, k) == x \div (2 ^ k)

\* the iteration with the last shift one bit longer: estimate' a quarter of
\* estimate * (3 - count * estimate^2)
NewtonGeneral_Quarter(cnt, ris) ==
  LET invsqrt  == (ris * (2 ^ REC_INV_SQRT_SHIFT)) % WordMod
      invsqrt2 == Shr(invsqrt * invsqrt, WordBits) % WordMod
      val0     == (3 * WordMod - cnt * invsqrt2) % TimeMod
      val1     == Shr(val0, 2)
      val2     == Shr((val1 * invsqrt) % TimeMod, WordBits - 2 + 2)
  IN  Shr(val2, REC_INV_SQRT_SHIFT) % WordMod

\* General path of cobalt_Newton_step: one fixed-point Newton iteration.
NewtonGeneral(cnt, ris) ==
  LET invsqrt  == (ris * (2 ^ REC_INV_SQRT_SHIFT)) % WordMod
      invsqrt2 == Shr(invsqrt * invsqrt, WordBits) % WordMod
      val0     == (3 * WordMod - cnt * invsqrt2) % TimeMod
      val1     == Shr(val0, 2)
      val2     == Shr((val1 * invsqrt) % TimeMod, WordBits - 2 + 1)
  IN  Shr(val2, REC_INV_SQRT_SHIFT) % WordMod

\* a step that never consults the table
Newton_step_NoTable(cnt, ris, tbl) == NewtonGeneral(cnt, ris)

\* cobalt_Newton_step: table shortcut for small counts, else the iteration.
Newton_step(cnt, ris, tbl) ==
  IF cnt < REC_INV_SQRT_CACHE /\ tbl[cnt] # 0
  THEN tbl[cnt]
  ELSE NewtonGeneral(cnt, ris)

\* the product without its shift back to a word
reciprocal_scale_NoShift(val, ep_ro) ==
  ((val % WordMod) * (ep_ro % WordMod)) % WordMod

\* reciprocal_scale(val, ep_ro) of the kernel: (u32)(((u64)(u32)val * ep_ro) >> 32)
reciprocal_scale(val, ep_ro) ==
  Shr((val % WordMod) * (ep_ro % WordMod), WordBits) % WordMod

control_law(t, interval, ris) ==
  (t + reciprocal_scale(interval, (ris * (2 ^ REC_INV_SQRT_SHIFT)) % WordMod)) % TimeMod

\* ------------------------------------------------------------------ table
RECURSIVE CacheFill(_, _, _)
\* the for loop of cobalt_cache_init, from v.count = c with v.rec_inv_sqrt = ris
CacheFill(c, ris, tbl) ==
  IF c >= REC_INV_SQRT_CACHE THEN tbl
  ELSE LET r1 == Newton_step(c, ris, tbl)
           r2 == Newton_step(c, r1, tbl)
           r3 == Newton_step(c, r2, tbl)
           r4 == Newton_step(c, r3, tbl)
       IN  CacheFill(c + 1, r4, [tbl EXCEPT ![c] = r4])

ZeroCache == [c \in 0 .. REC_INV_SQRT_CACHE - 1 |-> 0]

cobalt_cache_init ==
  LET seed == Shr(MAX, REC_INV_SQRT_SHIFT)
  IN  CacheFill(1, seed, [ZeroCache EXCEPT ![0] = seed])

\* ------------------------------------------------------------------- Init
\* the record of a should_drop call, when the most recent call was not one
NoRecord ==
  /\ was_dropping = FALSE /\ was_count = 0
  /\ over = FALSE /\ due = FALSE /\ marks = 0 /\ iters = 0
  /\ delay_drop = FALSE /\ draws = 0 /\ rnd = NoDraw /\ ret = FALSE

Init ==
  /\ count = 0 /\ rec_inv_sqrt = 0 /\ drop_next = 0 /\ blue_timer = 0
  /\ p_drop = 0 /\ dropping = FALSE /\ ecn_marked = FALSE
  /\ params \in ParamSets
  /\ cache = cobalt_cache_init
  /\ clock = 0
  /\ op = "init"
  /\ was_p_drop = 0
  /\ NoRecord
  /\ ipc = [t \in Threads |-> "done"]
  /\ depth = [t \in Threads |-> 0]
  /\ entered = 1
  /\ was_estimate = 0

\* the timestamps the next call may carry: now never goes backwards
Nows == { t \in clock .. clock + MaxStep : t <= MaxNow }

\* queue_full and queue_empty leave no should_drop record behind
ClearRecord ==
  /\ was_dropping' = FALSE /\ was_count' = 0
  /\ over' = FALSE /\ due' = FALSE /\ marks' = 0 /\ iters' = 0
  /\ delay_drop' = FALSE /\ draws' = 0 /\ rnd' = NoDraw /\ ret' = FALSE

\* ------------------------------------------------------------- queue_full
\* a rate limit that also lets through a call exactly target after the last update
BlueGate_AtTarget(now) == UDiff(now, blue_timer) >= params.target

BlueGate(now) == UDiff(now, blue_timer) > params.target

\* the increment without its overflow check
BlueInc_Wrap(pd, inc) == (pd + inc) % WordMod

\* p_drop += p_inc; if (p_drop < p_inc) p_drop = ~0
BlueInc(pd, inc) ==
  LET s == (pd + inc) % WordMod
  IN  IF s < inc THEN MAX ELSE s

\* the decrement without its floor
BlueDec_Wrap(pd, dec) == (pd - dec) % WordMod

\* if (p_drop < p_dec) p_drop = 0; else p_drop -= p_dec
BlueDec(pd, dec) ==
  IF pd < dec THEN 0 ELSE (pd - dec) % WordMod

\* a queue_full that leaves the schedule where it was
ForceDue_KeepSchedule(now) ==
  /\ dropping' = TRUE
  /\ drop_next' = drop_next
  /\ count' = IF count = 0 THEN 1 ELSE count

\* a queue_full that leaves count as it finds it
ForceDue_KeepCount(now) ==
  /\ dropping' = TRUE
  /\ drop_next' = now
  /\ count' = count

\* the unconditional tail of cobalt_queue_full
ForceDue(now) ==
  /\ dropping' = TRUE
  /\ drop_next' = now
  /\ count' = IF count = 0 THEN 1 ELSE count

cobalt_queue_full(now) ==
  /\ IF BlueGate(now)
     THEN /\ p_drop' = BlueInc(p_drop, params.p_inc)
          /\ blue_timer' = now
     ELSE UNCHANGED <<p_drop, blue_timer>>
  /\ ForceDue(now)
  /\ clock' = now
  /\ op' = "full"
  /\ was_p_drop' = p_drop
  /\ ClearRecord
  /\ UNCHANGED <<rec_inv_sqrt, ecn_marked, params, cache, ivars, was_estimate>>

cobalt_queue_empty(now) ==
  /\ IF BlueGate(now)
     THEN /\ p_drop' = BlueDec(p_drop, params.p_dec)
          /\ blue_timer' = now
     ELSE UNCHANGED <<p_drop, blue_timer>>
  /\ dropping' = FALSE
  /\ clock' = now
  /\ op' = "empty"
  /\ was_p_drop' = p_drop
  /\ ClearRecord
  /\ UNCHANGED <<count, rec_inv_sqrt, drop_next, ecn_marked, params, cache, ivars, was_estimate>>

\* ------------------------------------------------------------ should_drop
\* the increment without its wrap check
CountInc_Wrap(c) == (c + 1) % WordMod

\* vars->count++; if (!vars->count) vars->count--;
CountInc(c) ==
  LET c1 == (c + 1) % WordMod
  IN  IF c1 = 0 THEN (c1 - 1) % WordMod ELSE c1

\* a resynchronisation that steps count down by two
CountDec_Twice(c) == (c - 2) % WordMod

\* vars->count--
CountDec(c) == (c - 1) % WordMod

\* a schedule that is due whatever count is
NextDue_AnyCount(c, now, dn) == SDiff(now, dn) >= 0

\* a schedule that is not yet due at the instant drop_next
NextDue_Strict(c, now, dn) == c # 0 /\ SDiff(now, dn) > 0

NextDue(c, now, dn) == c # 0 /\ SDiff(now, dn) >= 0

\* one iteration of the resynchronisation loop on z = the fields it touches
ResyncStep(z, now) ==
  LET c1   == CountDec(z.count)
      ris1 == Newton_step(c1, z.rec_inv_sqrt, cache)
      dn1  == control_law(z.drop_next, params.interval, ris1)
  IN  [count |-> c1, rec_inv_sqrt |-> ris1, drop_next |-> dn1,
       next_due |-> NextDue(c1, now, dn1), iters |-> z.iters + 1]

\* a resynchronisation that stops after one iteration
Resync_Once(z, now) ==
  IF ~z.next_due THEN z ELSE ResyncStep(z, now)

RECURSIVE Resync(_, _)
\* while (next_due) { count--; Newton_step; control_law; recompute next_due }
Resync(z, now) ==
  IF ~z.next_due THEN z ELSE Resync(ResyncStep(z, now), now)

\* the comparison of the draw with p_drop off by one
BlueDrop_OrEqual(pd, r) == pd # 0 /\ r <= pd

\* the BLUE stage: if (p_drop) drop |= (prandom_u32() < p_drop)
BlueDrop(pd, r) == pd # 0 /\ r < pd

\* a should_drop that restarts the BLUE rate limit
ShouldDropFrame_TouchTimer ==
  /\ blue_timer' = clock'
  /\ UNCHANGED <<p_drop, params, cache, ivars, was_estimate>>

\* what cobalt_should_drop leaves alone
ShouldDropFrame == UNCHANGED <<p_drop, blue_timer, params, cache, ivars, was_estimate>>

\* a call that keeps the mark flag of the call before it
EcnReset_Stale == ecn_marked

\* vars->ecn_marked = false, what the flag holds unless this call marks
EcnReset == FALSE

\* the delay (CoDel) stage, with drop the verdict it leaves for the BLUE stage
CodelStage(now, enq, drop) ==
  LET sojourn     == SDiff(now, enq)
      over_target == (sojourn % TimeMod) > params.target
      next_due    == NextDue(count, now, drop_next)
      dropping1   == IF over_target THEN TRUE
                     ELSE IF dropping THEN FALSE ELSE dropping
      drop_next1  == IF over_target /\ ~dropping
                     THEN (now + params.interval) % TimeMod ELSE drop_next
      count1      == IF over_target /\ count = 0 THEN 1 ELSE count
      count2      == CountInc(count1)
      ris2        == Newton_step(count2, rec_inv_sqrt, cache)
  IN  /\ was_dropping' = dropping
      /\ was_count' = count
      /\ over' = over_target
      /\ due' = next_due
      /\ dropping' = dropping1
      /\ IF next_due /\ dropping1
         THEN \E mark \in BOOLEAN :       \* the result of INET_ECN_set_ce(skb)
              /\ ecn_marked' = mark
              /\ drop = ~mark
              /\ marks' = 1
              /\ iters' = 0
              /\ count' = count2
              /\ rec_inv_sqrt' = ris2
              /\ drop_next' = control_law(drop_next1, params.interval, ris2)
         ELSE \E z \in {Resync([count |-> count1, rec_inv_sqrt |-> rec_inv_sqrt,
                                 drop_next |-> drop_next1, next_due |-> next_due,
                                 iters |-> 0], now)} :
                  /\ ecn_marked' = EcnReset
                  /\ drop = FALSE
                  /\ marks' = 0
                  /\ iters' = z.iters
                  /\ count' = z.count
                  /\ rec_inv_sqrt' = z.rec_inv_sqrt
                  /\ drop_next' = z.drop_next

\* the probability (BLUE) stage
BlueStage(drop) ==
  IF p_drop # 0
  THEN \E r \in RandSet :                 \* the result of prandom_u32()
       /\ draws' = 1
       /\ rnd' = r
       /\ ret' = (drop \/ BlueDrop(p_drop, r))
  ELSE /\ draws' = 0
       /\ rnd' = NoDraw
       /\ ret' = drop

cobalt_should_drop(now, enq) ==
  /\ clock' = now
  /\ op' = "drop"
  /\ was_p_drop' = p_drop
  /\ \E drop \in BOOLEAN :
       /\ CodelStage(now, enq, drop)
       /\ delay_drop' = drop
       /\ BlueStage(drop)
  /\ ShouldDropFrame

\* ------------------------------------------------------------------- Next
QueueFull   == \E now \in Nows : cobalt_queue_full(now)
QueueEmpty  == \E now \in Nows : cobalt_queue_empty(now)
ShouldDrop  == \E now \in Nows, s \in Sojourns :
                 cobalt_should_drop(now, (now - s) % TimeMod)

Next == QueueFull \/ QueueEmpty \/ ShouldDrop

Spec == Init /\ [][Next]_vars

TypeOK ==
  /\ count \in 0 .. MAX /\ rec_inv_sqrt \in 0 .. MAX /\ p_drop \in 0 .. MAX
  /\ drop_next \in 0 .. TimeMod - 1 /\ blue_timer \in 0 .. TimeMod - 1
  /\ dropping \in BOOLEAN /\ ecn_marked \in BOOLEAN

\* --------------------------------------------------------- initialisation
\* The process before any cobalt_vars_init call: the static table is all zero
\* and Owner's struct cobalt_vars holds whatever its memory held.
InitBoot ==
  /\ count \in {0, MAX} /\ dropping \in BOOLEAN
  /\ rec_inv_sqrt = 0 /\ drop_next = 0 /\ blue_timer = 0
  /\ p_drop = 0 /\ ecn_marked = FALSE
  /\ params \in ParamSets
  /\ cache = ZeroCache
  /\ clock = 0
  /\ op = "boot"
  /\ was_p_drop = 0
  /\ NoRecord
  /\ ipc = [t \in Threads |-> "call"]
  /\ depth = [t \in Threads |-> 0]
  /\ entered = 0
  /\ was_estimate = 0

\* memset(vars, 0, sizeof(*vars)): Owner's outermost call clears the queue's
\* fields, a call made by cobalt_cache_init clears its local v
Memset(t) ==
  IF t = Owner /\ depth[t] = 0
  THEN /\ count' = 0 /\ rec_inv_sqrt' = 0 /\ drop_next' = 0 /\ blue_timer' = 0
       /\ p_drop' = 0 /\ dropping' = FALSE /\ ecn_marked' = FALSE
  ELSE UNCHANGED cvars

\* what the stack of thread t does once a cobalt_vars_init call finds entry 0
\* set: every cobalt_cache_init frame below it runs its body (lines 151-161)
\* and every cobalt_vars_init frame stores ~0 in entry 0 (line 170)
Unwind(t) ==
  IF depth[t] > 0 THEN [cobalt_cache_init EXCEPT ![0] = MAX] ELSE cache

\* One call of cobalt_vars_init by thread t, up to its return or to the call
\* of cobalt_vars_init that cobalt_cache_init makes first (line 150).  Line 168
\* names cobalt_rev_inv_sqrt_cache; it is read as the only table there is.
cobalt_vars_init(t) ==
  /\ ipc[t] = "call"
  /\ Memset(t)
  /\ IF cache[0] # 0
     THEN /\ cache' = Unwind(t)
          /\ ipc' = [ipc EXCEPT ![t] = "done"]
          /\ depth' = [depth EXCEPT ![t] = 0]
          /\ UNCHANGED entered
     ELSE /\ depth[t] < MaxDepth
          /\ depth' = [depth EXCEPT ![t] = depth[t] + 1]
          /\ entered' = entered + 1
          /\ UNCHANGED <<cache, ipc>>
  /\ UNCHANGED <<params, clock, op, was_p_drop, rvars, was_estimate>>

\* the nested calls have used up the stack of thread t
StackOverflow(t) ==
  /\ ipc[t] = "call"
  /\ cache[0] = 0
  /\ depth[t] = MaxDepth
  /\ ipc' = [ipc EXCEPT ![t] = "overflow"]
  /\ UNCHANGED <<cvars, params, cache, clock, op, was_p_drop, rvars, depth, entered, was_estimate>>

VarsInit == \E t \in Threads : cobalt_vars_init(t)
Overflow == \E t \in Threads : StackOverflow(t)

NextInit == VarsInit \/ Overflow

SpecInit == InitBoot /\ [][NextInit]_vars

\* ------------------------------------------------------------ refinement
\* cobalt_Newton_step as a function of (count, estimate): every pair of words,
\* with the table as cobalt_cache_init builds it
InitRefine ==
  /\ count \in 0 .. MAX /\ rec_inv_sqrt \in 0 .. MAX
  /\ drop_next = 0 /\ blue_timer = 0
  /\ p_drop = 0 /\ dropping = FALSE /\ ecn_marked = FALSE
  /\ params \in ParamSets
  /\ cache = cobalt_cache_init
  /\ clock = 0
  /\ op = "init"
  /\ was_p_drop = 0
  /\ NoRecord
  /\ ipc = [t \in Threads |-> "done"]
  /\ depth = [t \in Threads |-> 0]
  /\ entered = 1
  /\ was_estimate = rec_inv_sqrt

RefineFrame ==
  UNCHANGED <<count, drop_next, blue_timer, p_drop, dropping, ecn_marked,
              params, cache, clock, was_p_drop, rvars, ivars>>

\* the else branch of cobalt_Newton_step
RefineGeneral ==
  /\ rec_inv_sqrt' = NewtonGeneral(count, rec_inv_sqrt)
  /\ was_estimate' = rec_inv_sqrt
  /\ op' = "general"
  /\ RefineFrame

\* cobalt_Newton_step(vars)
RefineStep ==
  /\ rec_inv_sqrt' = Newton_step(count, rec_inv_sqrt, cache)
  /\ was_estimate' = rec_inv_sqrt
  /\ op' = "step"
  /\ RefineFrame

NextRefine == RefineGeneral \/ RefineStep

SpecRefine == InitRefine /\ [][NextRefine]_vars

\* ================================================================= claims
Min(a, b) == IF a < b THEN a ELSE b

\* The step just taken was a call of the named entry point, made with now = clock'.
IsFull  == op' = "full"
IsEmpty == op' = "empty"
IsDrop  == op' = "drop"

\* now - blue_timer > target, for the call being made
PassesRateLimit == clock' - blue_timer > params.target

\* C1: every queue_full(now) call leaves p_drop = min(MAX, p_drop + p_inc) when
\* now - blue_timer > target and leaves it unchanged otherwise; so p_drop never
\* decreases and never wraps in a queue_full call, each call that passes the rate
\* limit with p_inc > 0 strictly raises p_drop until it is MAX (which bounds the
\* number of such calls before saturation), and at MAX it stays at MAX.
C1_QueueFullSaturates ==
  [][IsFull =>
       /\ PassesRateLimit => p_drop' = Min(MAX, p_drop + params.p_inc)
       /\ ~PassesRateLimit => p_drop' = p_drop
       /\ p_drop' >= p_drop
       /\ (PassesRateLimit /\ params.p_inc > 0 /\ p_drop < MAX) => p_drop' > p_drop
       /\ p_drop = MAX => p_drop' = MAX]_vars

\* C1 witness: a queue_full call has just applied its update to a p_drop whose
\* sum with p_inc does not fit the word, and p_drop sits at MAX.
C1_Witness ==
  /\ op = "full" /\ blue_timer = clock /\ clock > 0
  /\ was_p_drop > 0 /\ was_p_drop + params.p_inc > MAX /\ p_drop = MAX

\* C2: every queue_empty(now) call that passes the rate limit leaves
\* p_drop - p_dec when p_drop >= p_dec and exactly 0 when p_drop < p_dec; no
\* queue_empty call leaves p_drop larger than it found it.
C2_QueueEmptyFloors ==
  [][IsEmpty =>
       /\ (PassesRateLimit /\ p_drop >= params.p_dec) => p_drop' = p_drop - params.p_dec
       /\ (PassesRateLimit /\ p_drop < params.p_dec) => p_drop' = 0
       /\ p_drop' <= p_drop]_vars

\* C2 witness: a queue_empty call has just applied its update to a nonzero
\* p_drop smaller than p_dec, and p_drop is 0.
C2_Witness ==
  /\ op = "empty" /\ blue_timer = clock /\ clock > 0
  /\ was_p_drop > 0 /\ was_p_drop < params.p_dec /\ p_drop = 0

C4_ShouldDropLeavesBlue ==
  [][/\ IsDrop => (p_drop' = p_drop /\ blue_timer' = blue_timer)
     /\ (p_drop' # p_drop \/ blue_timer' # blue_timer) => (IsFull \/ IsEmpty)]_vars

\* C4 witness: a should_drop call that marked its packet and drew a random value
\* below a nonzero p_drop, made later than the last BLUE update.
C4_Witness ==
  /\ op = "drop" /\ p_drop > 0 /\ draws = 1 /\ rnd < p_drop /\ ret
  /\ marks = 1 /\ ecn_marked /\ blue_timer > 0 /\ clock > blue_timer

\* C5: should_drop returns delay_drop OR probabilistic_drop, the latter true
\* exactly when p_drop > 0 and the one value drawn is below p_drop; with
\* p_drop = 0 nothing is drawn and the result is the delay verdict; with
\* p_drop > 0 exactly one value is drawn.
C5_ReturnValue ==
  [][IsDrop =>
       /\ ret' = (delay_drop' \/ (p_drop > 0 /\ draws' = 1 /\ rnd' < p_drop))
       /\ p_drop = 0 => (draws' = 0 /\ rnd' = NoDraw /\ ret' = delay_drop')
       /\ p_drop > 0 => (draws' = 1 /\ rnd' \in 0 .. MAX)]_vars

\* C5 witness: the delay controller marked (no delay drop) and the call still
\* returned true because the value drawn was below p_drop.
C5_Witness ==
  /\ op = "drop" /\ ~delay_drop /\ ret /\ draws = 1 /\ rnd < p_drop
\* The packet of a should_drop call arrives with the controller NOT_DROPPING and
\* a sojourn above target (interval > 0): the call enters DROPPING.
EntersDropping == IsDrop /\ ~dropping /\ over' /\ params.interval > 0

\* What C6 says such a call does: it starts the schedule one interval ahead and
\* the delay controller leaves the packet alone.
NoActionOnEntry ==
  /\ dropping'
  /\ drop_next' = clock' + params.interval
  /\ count' = IF count = 0 THEN 1 ELSE count
  /\ marks' = 0 /\ ~ecn_marked' /\ ~delay_drop'
  /\ p_drop = 0 => ~ret'

\* C6 as stated: from every state with dropping = false (any count, any stale
\* drop_next) an over-target should_drop call enters DROPPING with
\* drop_next = now + interval and neither marks nor drops the packet.
C6_Original == [][EntersDropping => NoActionOnEntry]_vars

\* C6 amended: the same, from every state with dropping = false in which the
\* old schedule is not due at the call (count = 0 or now < drop_next).
C6_EntryNoAction ==
  [][(EntersDropping /\ (count = 0 \/ clock' < drop_next)) => NoActionOnEntry]_vars

\* C6 witness: an over-target call found NOT_DROPPING with a stale count >= 1
\* whose schedule was not due, and entered DROPPING without acting.
C6_Witness ==
  /\ op = "drop" /\ ~was_dropping /\ was_count >= 1 /\ over /\ ~due
  /\ dropping /\ drop_next = clock + params.interval /\ marks = 0 /\ ~ret

\* the fixed-point product interval * rec_inv_sqrt
Scaled(interval, ris) == (interval * ris) \div WordMod

\* C7: a should_drop call with dropping = true, count >= 1, now >= drop_next and
\* sojourn > target attempts marking exactly once; the delay verdict is drop iff
\* marking failed (with p_drop = 0 that is the value returned) and ecn_marked is
\* the marking result; count becomes min(count + 1, MAX); rec_inv_sqrt is the
\* refinement for the new count; drop_next advances by interval * rec_inv_sqrt.
C7_DueAction ==
  [][(IsDrop /\ dropping /\ count >= 1 /\ clock' >= drop_next /\ over') =>
       /\ marks' = 1
       /\ delay_drop' = ~ecn_marked'
       /\ p_drop = 0 => ret' = ~ecn_marked'
       /\ count' = Min(count + 1, MAX)
       /\ rec_inv_sqrt' = IF count' < REC_INV_SQRT_CACHE THEN cache[count']
                          ELSE NewtonGeneral(count', rec_inv_sqrt)
       /\ drop_next' = drop_next + Scaled(params.interval, rec_inv_sqrt')]_vars

\* C8: count never wraps: the increment of a due action leaves
\* min(count + 1, MAX), so MAX stays MAX; the resynchronisation loop runs at
\* most count times and leaves count minus its number of iterations, so it never
\* decrements a zero; queue_full and queue_empty only ever turn a 0 into a 1.
C8_CountNeverWraps ==
  [][/\ (IsDrop /\ marks' = 1) => (count >= 1 /\ count' = Min(count + 1, MAX))
     /\ (IsDrop /\ marks' = 0) =>
          LET c1 == IF over' /\ count = 0 THEN 1 ELSE count
          IN  iters' <= c1 /\ count' = c1 - iters'
     /\ IsFull => count' = (IF count = 0 THEN 1 ELSE count)
     /\ IsEmpty => count' = count]_vars

\* C8 witness: a due action found count at MAX and left it at MAX.
C8_Witness ==
  /\ op = "drop" /\ marks = 1 /\ was_count = MAX /\ count = MAX

\* C9 as stated: from DROPPING, every should_drop call with sojourn > target that
\* follows a should_drop call strictly increases count and does not decrease
\* drop_next.
C9_Original ==
  [][(IsDrop /\ op = "drop" /\ dropping /\ over') =>
       (count' > count /\ drop_next' >= drop_next)]_vars

\* C9 amended: from DROPPING, every should_drop call with sojourn > target
\* leaves count and drop_next no smaller; count grows, by one and saturating at
\* MAX, on exactly the calls made when the schedule is due (now >= drop_next),
\* and on the others count and drop_next are unchanged.
C9_DroppingMonotone ==
  [][(IsDrop /\ dropping /\ over') =>
       /\ count' >= count /\ drop_next' >= drop_next /\ dropping'
       /\ clock' >= drop_next => count' = Min(count + 1, MAX)
       /\ clock' < drop_next => (count' = count /\ drop_next' = drop_next)]_vars

\* C9 witness: in DROPPING, an over-target call that followed a due action came
\* before the schedule was due and left count as it was.
C9_Witness ==
  /\ op = "drop" /\ was_dropping /\ over /\ ~due /\ marks = 0
  /\ dropping /\ count = was_count /\ count >= 2 /\ drop_next > clock

\* C10: queue_full(now), whether or not the rate limit lets p_drop change, leaves
\* dropping = true, drop_next = now and count >= 1 (1 if it was 0, else
\* unchanged); the should_drop call that follows it at any now' >= now finds
\* next_due true, and if its packet is over target the delay controller marks or
\* drops it.
C10_QueueFullForcesDue ==
  [][/\ IsFull => /\ dropping' /\ drop_next' = clock' /\ count' >= 1
                  /\ count' = (IF count = 0 THEN 1 ELSE count)
     /\ (op = "full" /\ IsDrop) =>
          /\ clock' >= clock
          /\ due'
          /\ over' => (marks' = 1 /\ delay_drop' = ~ecn_marked')]_vars

\* C10 witness: at time 0 a should_drop call found DROPPING with count = 1 and a
\* due schedule and acted on its over-target packet.  At time 0 only queue_full
\* leaves that state: should_drop enters DROPPING with drop_next = interval.
C10_Witness ==
  /\ op = "drop" /\ clock = 0 /\ was_dropping /\ was_count = 1
  /\ over /\ due /\ marks = 1 /\ count = 2

RECURSIVE Advance(_, _)
\* the sum of the control-law steps for the counts lo .. hi - 1, all below
\* REC_INV_SQRT_CACHE, so that each step uses the table entry of its count
Advance(lo, hi) ==
  IF lo >= hi THEN 0
  ELSE Scaled(params.interval % WordMod, cache[lo]) + Advance(lo + 1, hi)

\* C13: a should_drop call that finds next_due true while the state after the
\* transition rule is NOT_DROPPING makes no marking attempt and leaves the delay
\* verdict "no drop"; its loop runs at least once and at most (initial count)
\* times, each iteration taking one off count, refining rec_inv_sqrt and
\* advancing drop_next by the control law; on exit count = 0 or now < drop_next.
C13_Resync ==
  [][(IsDrop /\ due' /\ ~dropping') =>
       /\ marks' = 0 /\ ~delay_drop' /\ ~ecn_marked'
       /\ iters' >= 1 /\ iters' <= count
       /\ count' = count - iters'
       /\ (count' = 0 \/ SDiff(clock', drop_next') < 0)
       /\ (count <= REC_INV_SQRT_CACHE =>
             /\ rec_inv_sqrt' = cache[count']
             /\ drop_next' = drop_next + Advance(count', count))]_vars

C13_Witness ==
  /\ op = "drop" /\ due /\ ~dropping /\ marks = 0
  /\ iters >= 2 /\ count >= 1 /\ was_count = count + iters
  /\ drop_next > clock

\* C14: in any should_drop call INET_ECN_set_ce is invoked at most once, and
\* only when next_due is true and the state is DROPPING, never by the p_drop
\* branch; after the call ecn_marked is true iff this call's attempt succeeded
\* (an attempt that succeeds leaves the delay verdict "no drop", one that fails
\* leaves "drop"), and a call that returns true with ecn_marked true does so
\* only because the random draw was below p_drop.
C14_OnlyDelayMarks ==
  [][IsDrop =>
       /\ marks' <= 1
       /\ (marks' = 1 => due' /\ dropping')
       /\ (ecn_marked' <=> (marks' = 1 /\ ~delay_drop'))
       /\ (ret' /\ ecn_marked' => draws' = 1 /\ rnd' # NoDraw /\ rnd' < p_drop)]_vars

\* a marked packet that the BLUE stage drops all the same
C14_Witness ==
  /\ op = "drop" /\ due /\ dropping /\ marks = 1 /\ ecn_marked /\ ~delay_drop
  /\ ret /\ draws = 1 /\ rnd < p_drop

\* C17: in every state reachable from init by should_drop, queue_full and
\* queue_empty calls, dropping = true implies count >= 1.
C17_DroppingHasCount == dropping => count >= 1

\* DROPPING entered by a should_drop call that found count = 0
C17_Witness ==
  /\ op = "drop" /\ ~was_dropping /\ was_count = 0 /\ over
  /\ dropping /\ count = 1

\* C18: whenever should_drop(now) returns with dropping = false, count = 0 or
\* now - drop_next < 0 as a signed difference: no due schedule is left behind.
C18_NoStaleSchedule ==
  (op = "drop" /\ ~dropping) => (count = 0 \/ SDiff(clock, drop_next) < 0)

\* a call that left DROPPING, found the schedule due and moved it past now
C18_Witness ==
  /\ op = "drop" /\ was_dropping /\ ~dropping /\ ~over /\ due
  /\ iters >= 1 /\ count >= 1 /\ drop_next > clock

\* the call just made is one C19 speaks of, under C19's assumption on interval
SchedulingCall == (IsDrop \/ IsFull) /\ params.interval < WordMod

\* a should_drop call that enters DROPPING while the schedule it finds is due
StaleEntry == IsDrop /\ ~dropping /\ over' /\ due'

\* C19 as stated: with now non-decreasing and interval fitting in 32 bits, after
\* every should_drop or queue_full call at time now, drop_next <= now + interval.
C19_Original ==
  [][SchedulingCall => drop_next' <= clock' + params.interval]_vars

\* C19: with now non-decreasing and interval fitting in 32 bits, after every
\* should_drop or queue_full call at time now, drop_next <= now + 2 * interval;
\* and drop_next > now + interval only after a should_drop call that entered
\* DROPPING while the schedule it found was due (it sets drop_next to
\* now + interval and then advances it by one control-law step), or after a call
\* that left such a drop_next unchanged.
C19_ScheduleBound ==
  [][SchedulingCall =>
       /\ drop_next' <= clock' + 2 * params.interval
       /\ (drop_next' > clock' + params.interval) =>
            \/ StaleEntry /\ marks' = 1
                 /\ drop_next' = clock' + params.interval
                                   + Scaled(params.interval, rec_inv_sqrt')
            \/ drop_next' = drop_next]_vars

\* DROPPING entered on a due schedule: drop_next beyond one interval, within two
C19_Witness ==
  /\ params.interval < WordMod
  /\ op = "drop" /\ ~was_dropping /\ dropping /\ over /\ due /\ marks = 1
  /\ drop_next > clock + params.interval
  /\ drop_next <= clock + 2 * params.interval

\* ----------------------------------------------- claims on SpecRefine
\* estimate^2: the top W bits of the double-width product
Square(e) == (e * e) \div WordMod

\* estimate * (3 - count * estimate^2) as an exact integer, in units of 2^(-2W)
Cubic(c, e) == e * (3 * WordMod - c * Square(e))

\* r is the W-bit truncation of a value u that is Cubic(c, e) / den in units of
\* 2^(-2W), i.e. Cubic(c, e) / (den * 2^W) in units of 2^(-W), rounded down by
\* less than three units (one per shift, and the first is scaled by estimate)
IsFixedPoint(r, c, e, den) ==
  \E k \in 0 .. 1 :
    LET u == r + k * WordMod
    IN  /\ den * WordMod * u <= Cubic(c, e)
        /\ Cubic(c, e) < den * WordMod * (u + 3)

\* C15 as stated: on the general path, for every count and every W-bit
\* estimate, refine returns estimate * (3 - count * estimate^2) / 4 in fixed
\* point, truncated to W bits.
C15_Original ==
  op = "general" => IsFixedPoint(rec_inv_sqrt, count, was_estimate, 4)

\* C15: on the general path, for every count and every W-bit estimate with
\* count * estimate^2 <= 3 (so that the unsigned subtraction does not wrap),
\* refine returns estimate * (3 - count * estimate^2) / 2 in fixed point, with
\* estimate^2 the top W bits of the double-width product, rounded down and
\* truncated to W bits.
C15_NewtonHalf ==
  (op = "general" /\ count * Square(was_estimate) <= 3 * WordMod)
    => IsFixedPoint(rec_inv_sqrt, count, was_estimate, 2)

\* an estimate below 1/sqrt(count) that one step raises, count beyond the table
C15_Witness ==
  /\ op = "general" /\ count >= REC_INV_SQRT_CACHE
  /\ was_estimate > 0 /\ rec_inv_sqrt > was_estimate
  /\ count * Square(was_estimate) <= 3 * WordMod
  /\ count * Square(rec_inv_sqrt) <= WordMod

\* four general-path steps with count c from estimate e
FourSteps(c, e) ==
  NewtonGeneral(c, NewtonGeneral(c, NewtonGeneral(c, NewtonGeneral(c, e))))

\* C16: in the table cobalt_cache_init builds, entry 0 is the all-ones seed and
\* every entry 1 .. 15 is nonzero and is four general-path Newton steps with its
\* count from the entry before it; and for every count in 0 .. 15 refine(count,
\* estimate) returns table[count] whatever the estimate.
C16_TableShortcut ==
  /\ cache[0] = MAX
  /\ \A c \in 1 .. REC_INV_SQRT_CACHE - 1 :
       cache[c] # 0 /\ cache[c] = FourSteps(c, cache[c - 1])
  /\ (op = "step" /\ count < REC_INV_SQRT_CACHE) => rec_inv_sqrt = cache[count]

\* the table entry returned where the general path would have returned zero
C16_Witness ==
  /\ op = "step" /\ count = REC_INV_SQRT_CACHE - 1
  /\ was_estimate = 0 /\ NewtonGeneral(count, was_estimate) = 0
  /\ rec_inv_sqrt = cache[count] /\ rec_inv_sqrt # 0

\* ------------------------------------------------- claims on SpecInit
Zeroed ==
  /\ count = 0 /\ rec_inv_sqrt = 0 /\ drop_next = 0 /\ blue_timer = 0
  /\ p_drop = 0 /\ dropping = FALSE /\ ecn_marked = FALSE

TableBuilt == \A c \in 0 .. REC_INV_SQRT_CACHE - 1 : cache[c] = cobalt_cache_init[c]

\* C11: the first init(vars) call of a process terminates, having entered
\* cobalt_cache_init exactly once and never again through the call of
\* cobalt_vars_init that cobalt_cache_init makes, and leaves vars zeroed; a later
\* init(vars) call returns without entering the construction.  As a state
\* predicate: no thread ever holds two cobalt_cache_init frames or exhausts its
\* stack, and a returned call of Owner has left the queue's fields zero.
C11_InitOnce ==
  \A t \in Threads :
    /\ depth[t] <= 1
    /\ ipc[t] # "overflow"
    /\ (t = Owner /\ ipc[t] = "done") => Zeroed

\* C12: with two threads each calling init(vars) while the table is not built,
\* the construction body runs once, and whenever a thread's init has returned
\* the table holds its final values.  As a state predicate: at most one thread
\* is ever inside cobalt_cache_init, and a thread that is done sees TableBuilt.
C12_ConcurrentInit ==
  /\ Cardinality({t \in Threads : depth[t] >= 1}) <= 1
  /\ \A t \in Threads : ipc[t] = "done" => TableBuilt
====
